---- MODULE Spec2Model ----
(***************************************************************************)
(* Model of src/core.py: the warehouse journal (df_transactions), the      *)
(* stock table (df_inventory), their CSV files, the log folder and the     *)
(* undo/redo stacks, driven by the button callbacks add_inbound,           *)
(* add_outbound, undo_action and redo_action.                              *)
(*                                                                         *)
(* Text is modelled as a sequence of tokens (<<>> is the empty string), a  *)
(* DataFrame as the sequence of its rows, a CSV file as header + rows.     *)
(***************************************************************************)
EXTENDS Integers, Sequences, FiniteSets, TLC

\* ---------------------------------------------------------------- bounds
MaxRequests == 3        \* add_inbound / add_outbound calls explored
MaxQty == 2             \* largest number typed into the quantity box
MaxPairRequests == 1    \* calls explored in each of two executions run side by side
MaxImportRequests == 1  \* calls explored when CSV files are imported as well
MaxImports == 1         \* CSV imports explored
TicksPerSecond == 6     \* clock readings that fall into one second of a log-file stamp

\* ---------------------------------------------------------------- inputs
Items == {"widget", "gadget"}
Senders == {"acme"}
Operators == {"li"}
RemarkTexts == {<<"note">>}
NoImage == "None"
Images == {NoImage}       \* the optional picture is left out of every request
\* gr.Number delivers a number, or None when the box is empty.  A number n
\* is the one-element sequence <<n>>, None is <<>>.  The box takes negative
\* numbers and zero; -1 stands for the negative ones.
NoneQty == << >>
QtyInputs == {NoneQty} \cup {<<n>> : n \in -1..MaxQty}

\* gr.File delivers an uploaded file, or None: <<f>> or <<>>
NoFile == << >>

\* ---------------------------------------------------------------- constants of the program
DATA_DIR == "./data"
INBOUND == "inbound"      \* "入库"
OUTBOUND == "outbound"    \* "出库"
TRANSACTION_COLUMNS == <<"date", "type", "item", "sender_receiver", "operator", "remarks">>
INVENTORY_COLUMNS == <<"time", "item", "qty">>
ReadsPerRequest == 3      \* datetime.now() is read three times by a request

\* outcomes shown in the result text boxes
MsgInboundOk == "inbound recorded"
MsgOutboundOk == "outbound recorded"
MsgNegative == "Error: outbound makes stock negative"
MsgNotInStock == "Error: item not in inventory"
MsgInventoryUpdated == "inventory updated"
MsgUndoOk == "undo ok"
MsgNoUndo == "no undo history"
MsgRedoOk == "redo ok"
MsgNoRedo == "no redo history"
RaisedTypeError == "TypeError"
MsgTransactionsLoaded == "transactions loaded"
MsgInventoryLoaded == "inventory loaded"
NoCall == [fn |-> "none"]

VARIABLES
  df_transactions,   \* live journal: rows [date, type, item, sender_receiver, operator, remarks]
  df_inventory,      \* live stock table: rows [time, item, qty]
  transaction_csv,   \* content of data/transaction_records.csv
  inventory_csv,     \* content of data/warehouse_inventory.csv
  log_dir,           \* data/log: set of [stamp, transactions, inventory] copies
  undo_stack,        \* sequence of <<journal, stock>> snapshots, top at the end
  redo_stack,
  requests,          \* add_inbound / add_outbound calls handled so far
  call,              \* the callback that ran last, with its inputs
  result,            \* what it returned (or raised)
  quantity_of,       \* history: date of a journal row |-> int(quantity) of its request
  other,             \* a second, independent execution of the program (SpecPair only)
  imports,           \* load_transactions_file / load_inventory_file calls handled so far
  threads,           \* worker thread |-> the callback it runs: next statement and locals
  heap               \* the DataFrame objects and who refers to them (SpecHeap only)

vars == <<df_transactions, df_inventory, transaction_csv, inventory_csv, log_dir,
          undo_stack, redo_stack, requests, call, result, quantity_of, other, imports,
          threads, heap>>

\* what the callbacks of the single execution leave alone when run in one piece
aux == <<other, imports, threads, heap>>

\* The globals of the module as one value; the callbacks below map the
\* globals before a call to the globals after it.
State ==
  [df_transactions |-> df_transactions, df_inventory |-> df_inventory,
   transaction_csv |-> transaction_csv, inventory_csv |-> inventory_csv,
   log_dir |-> log_dir, undo_stack |-> undo_stack, redo_stack |-> redo_stack,
   requests |-> requests, call |-> call, result |-> result,
   quantity_of |-> quantity_of]

SetState(n) ==
  /\ df_transactions' = n.df_transactions
  /\ df_inventory' = n.df_inventory
  /\ transaction_csv' = n.transaction_csv
  /\ inventory_csv' = n.inventory_csv
  /\ log_dir' = n.log_dir
  /\ undo_stack' = n.undo_stack
  /\ redo_stack' = n.redo_stack
  /\ requests' = n.requests
  /\ call' = n.call
  /\ result' = n.result
  /\ quantity_of' = n.quantity_of

\* ---------------------------------------------------------------- helpers
\* k-th reading of datetime.now() inside the current request.  Every request
\* copies two files before its first reading, so readings strictly increase.
Now(s, k) == s.requests * ReadsPerRequest + k

\* strftime("%Y%m%d%H%M%S"): the stamp has second granularity
Stamp(t) == t \div TicksPerSecond

\* DataFrame.to_csv(path, index=False)
ToCsv(columns, df) == [header |-> columns, rows |-> df]

\* int(quantity) raises TypeError on None
Coercible(quantity) == quantity # NoneQty
IntOf(quantity) == quantity[1]

\* process_image: "" without a file, else the path under DATA_DIR
process_image(file_obj) ==
  IF file_obj = NoImage THEN << >> ELSE <<DATA_DIR, "/", file_obj>>

\* remarks = f"{remarks} || image:{image_path}" when there is an image
WithImage(remarks, image_path) ==
  IF image_path # << >> THEN remarks \o <<" || image:">> \o image_path ELSE remarks

\* a record with the item written into the counterparty column and back
Record_swapped(now, transaction_type, item, sender_receiver, operator, remarks) ==
  [date |-> now, type |-> transaction_type, item |-> sender_receiver,
   sender_receiver |-> item, operator |-> operator, remarks |-> remarks]

\* the row appended to the journal
Record(now, transaction_type, item, sender_receiver, operator, remarks) ==
  [date |-> now, type |-> transaction_type, item |-> item,
   sender_receiver |-> sender_receiver, operator |-> operator, remarks |-> remarks]

\* (df_transactions.copy(), df_inventory.copy())
Snapshot(s) == <<s.df_transactions, s.df_inventory>>

\* a membership test that overlooks rows with no stock left
InInventory_in_stock(inv, item) == \E i \in 1..Len(inv) : inv[i].item = item /\ inv[i].qty > 0

\* item in df_inventory["物品"].values
InInventory(inv, item) == \E i \in 1..Len(inv) : inv[i].item = item

\* df_inventory.index[df_inventory["物品"] == item][0]
IndexOf(inv, item) ==
  CHOOSE i \in 1..Len(inv) :
    /\ inv[i].item = item
    /\ \A j \in 1..(i - 1) : inv[j].item # item

\* log_files that keeps the copy already stored under an equal stamp
log_files_keep_first(s) ==
  LET timestamp == Stamp(Now(s, 1))
  IN IF \E c \in s.log_dir : c.stamp = timestamp
     THEN s
     ELSE [s EXCEPT !.log_dir =
             s.log_dir \cup {[stamp |-> timestamp, transactions |-> s.transaction_csv,
                              inventory |-> s.inventory_csv]}]

\* log_files: copy both CSV files under a stamp; an equal stamp overwrites
log_files(s) ==
  LET timestamp == Stamp(Now(s, 1))
  IN [s EXCEPT !.log_dir =
        {c \in s.log_dir : c.stamp # timestamp}
          \cup {[stamp |-> timestamp, transactions |-> s.transaction_csv,
                 inventory |-> s.inventory_csv]}]

save_transactions(s) ==
  [s EXCEPT !.transaction_csv = ToCsv(TRANSACTION_COLUMNS, s.df_transactions)]

\* save_inventory that writes nothing
save_inventory_skipped(s) == s

save_inventory(s) ==
  [s EXCEPT !.inventory_csv = ToCsv(INVENTORY_COLUMNS, s.df_inventory)]

\* new_stock = current_stock + quantity for "入库", else current_stock - quantity
new_stock_wrong_sign(current_stock, transaction_type, quantity) ==
  current_stock - quantity

new_stock_of(current_stock, transaction_type, quantity) ==
  IF transaction_type = INBOUND
  THEN current_stock + quantity
  ELSE current_stock - quantity

\* update_inventory with the stock written before the negative check
update_inventory_late_check(s, item, transaction_type, quantity) ==
  LET now == Now(s, 3)
      inv == s.df_inventory
  IN IF InInventory(inv, item)
     THEN LET idx == IndexOf(inv, item)
              new_stock == new_stock_of(inv[idx].qty, transaction_type, quantity)
              written == [s EXCEPT !.df_inventory[idx].qty = new_stock,
                                   !.df_inventory[idx].time = now]
          IN IF transaction_type # INBOUND /\ new_stock < 0
             THEN [success |-> FALSE, msg |-> MsgNegative, s |-> written]
             ELSE [success |-> TRUE, msg |-> MsgInventoryUpdated, s |-> save_inventory(written)]
     ELSE IF transaction_type = INBOUND
          THEN [success |-> TRUE, msg |-> MsgInventoryUpdated,
                s |-> save_inventory(
                        [s EXCEPT !.df_inventory =
                           Append(inv, [time |-> now, item |-> item, qty |-> quantity])])]
          ELSE [success |-> FALSE, msg |-> MsgNotInStock, s |-> s]

\* update_inventory that stamps the change time on every row
update_inventory_touch_all(s, item, transaction_type, quantity) ==
  LET now == Now(s, 3)
      inv == s.df_inventory
      touched == [i \in 1..Len(inv) |-> [inv[i] EXCEPT !.time = now]]
  IN IF InInventory(inv, item)
     THEN LET idx == IndexOf(inv, item)
              new_stock == new_stock_of(inv[idx].qty, transaction_type, quantity)
          IN IF transaction_type # INBOUND /\ new_stock < 0
             THEN [success |-> FALSE, msg |-> MsgNegative, s |-> s]
             ELSE [success |-> TRUE, msg |-> MsgInventoryUpdated,
                   s |-> save_inventory(
                           [s EXCEPT !.df_inventory = [touched EXCEPT ![idx].qty = new_stock]])]
     ELSE IF transaction_type = INBOUND
          THEN [success |-> TRUE, msg |-> MsgInventoryUpdated,
                s |-> save_inventory(
                        [s EXCEPT !.df_inventory =
                           Append(inv, [time |-> now, item |-> item, qty |-> quantity])])]
          ELSE [success |-> FALSE, msg |-> MsgNotInStock, s |-> s]

\* update_inventory: (success, message) and the globals it leaves behind
update_inventory(s, item, transaction_type, quantity) ==
  LET now == Now(s, 3)
      inv == s.df_inventory
  IN IF InInventory(inv, item)
     THEN LET idx == IndexOf(inv, item)
              current_stock == inv[idx].qty
              new_stock == new_stock_of(current_stock, transaction_type, quantity)
          IN IF transaction_type # INBOUND /\ new_stock < 0
             THEN [success |-> FALSE, msg |-> MsgNegative, s |-> s]
             ELSE [success |-> TRUE, msg |-> MsgInventoryUpdated,
                   s |-> save_inventory(
                           [s EXCEPT !.df_inventory[idx].qty = new_stock,
                                     !.df_inventory[idx].time = now])]
     ELSE IF transaction_type = INBOUND
          THEN [success |-> TRUE, msg |-> MsgInventoryUpdated,
                s |-> save_inventory(
                        [s EXCEPT !.df_inventory =
                           Append(inv, [time |-> now, item |-> item, qty |-> quantity])])]
          ELSE [success |-> FALSE, msg |-> MsgNotInStock, s |-> s]

\* ---------------------------------------------------------------- callbacks
\* undo_stack.append((df_transactions.copy(), df_inventory.copy()))
\* redo_stack.clear()
capture_keeping_redo(s) ==
  [s EXCEPT !.undo_stack = Append(s.undo_stack, Snapshot(s))]

capture_for_undo(s) ==
  [s EXCEPT !.undo_stack = Append(s.undo_stack, Snapshot(s)),
            !.redo_stack = << >>]

\* the callback is over: its message is shown (or its exception reported)
Returned(s, msg) == [s EXCEPT !.result = msg, !.requests = s.requests + 1]

add_inbound(s, item, sender_receiver, operator, remarks, quantity, image) ==
  LET s1 == log_files([s EXCEPT !.call = [fn |-> "add_inbound", item |-> item,
                                          quantity |-> quantity]])
      s2 == capture_for_undo(s1)
      now == Now(s, 2)
  IN IF ~Coercible(quantity)
     THEN Returned(s2, RaisedTypeError)
     ELSE LET q == IntOf(quantity)
              record == Record(now, INBOUND, item, sender_receiver, operator,
                               WithImage(remarks, process_image(image)))
              r == update_inventory(s2, item, INBOUND, q)
          IN IF ~r.success
             THEN Returned(r.s, r.msg)
             ELSE Returned(
                    save_transactions(
                      [r.s EXCEPT !.df_transactions = Append(r.s.df_transactions, record),
                                  !.quantity_of = (now :> q) @@ r.s.quantity_of]),
                    MsgInboundOk)

add_outbound(s, item, sender_receiver, operator, remarks, quantity, image) ==
  LET s1 == log_files([s EXCEPT !.call = [fn |-> "add_outbound", item |-> item,
                                          quantity |-> quantity]])
      s2 == capture_for_undo(s1)
      now == Now(s, 2)
  IN IF ~Coercible(quantity)
     THEN Returned(s2, RaisedTypeError)
     ELSE LET q == IntOf(quantity)
              r == update_inventory(s2, item, OUTBOUND, q)
              record == Record(now, OUTBOUND, item, sender_receiver, operator,
                               WithImage(remarks, process_image(image)))
          IN IF ~r.success
             THEN Returned(r.s, r.msg)
             ELSE Returned(
                    save_transactions(
                      [r.s EXCEPT !.df_transactions = Append(r.s.df_transactions, record),
                                  !.quantity_of = (now :> q) @@ r.s.quantity_of]),
                    MsgOutboundOk)

\* undo_action that saves the current state for redo before looking at the stack
undo_action_push_first(s) ==
  LET s0 == [s EXCEPT !.call = [fn |-> "undo_action"],
                      !.redo_stack = Append(s.redo_stack, Snapshot(s))]
  IN IF s.undo_stack = << >>
     THEN [s0 EXCEPT !.result = MsgNoUndo]
     ELSE LET state == s.undo_stack[Len(s.undo_stack)]
          IN save_inventory(save_transactions(
               [s0 EXCEPT !.undo_stack = SubSeq(s.undo_stack, 1, Len(s.undo_stack) - 1),
                          !.df_transactions = state[1],
                          !.df_inventory = state[2],
                          !.result = MsgUndoOk]))

undo_action(s) ==
  LET s0 == [s EXCEPT !.call = [fn |-> "undo_action"]]
  IN IF s.undo_stack = << >>
     THEN [s0 EXCEPT !.result = MsgNoUndo]
     ELSE LET state == s.undo_stack[Len(s.undo_stack)]
          IN save_inventory(save_transactions(
               [s0 EXCEPT !.redo_stack = Append(s.redo_stack, Snapshot(s)),
                          !.undo_stack = SubSeq(s.undo_stack, 1, Len(s.undo_stack) - 1),
                          !.df_transactions = state[1],
                          !.df_inventory = state[2],
                          !.result = MsgUndoOk]))

\* redo_action that does not save the current state for undo
redo_action_no_push(s) ==
  LET s0 == [s EXCEPT !.call = [fn |-> "redo_action"]]
  IN IF s.redo_stack = << >>
     THEN [s0 EXCEPT !.result = MsgNoRedo]
     ELSE LET state == s.redo_stack[Len(s.redo_stack)]
          IN save_inventory(save_transactions(
               [s0 EXCEPT !.redo_stack = SubSeq(s.redo_stack, 1, Len(s.redo_stack) - 1),
                          !.df_transactions = state[1],
                          !.df_inventory = state[2],
                          !.result = MsgRedoOk]))

redo_action(s) ==
  LET s0 == [s EXCEPT !.call = [fn |-> "redo_action"]]
  IN IF s.redo_stack = << >>
     THEN [s0 EXCEPT !.result = MsgNoRedo]
     ELSE LET state == s.redo_stack[Len(s.redo_stack)]
          IN save_inventory(save_transactions(
               [s0 EXCEPT !.undo_stack = Append(s.undo_stack, Snapshot(s)),
                          !.redo_stack = SubSeq(s.redo_stack, 1, Len(s.redo_stack) - 1),
                          !.df_transactions = state[1],
                          !.df_inventory = state[2],
                          !.result = MsgRedoOk]))

\* ---------------------------------------------------------------- CSV import
\* pd.read_csv(dest, parse_dates=[...]): the rows under the header
ReadCsv(file) == file.rows

\* load_transactions_file that also forgets the history
load_transactions_file_clearing(s, file_obj) ==
  LET s0 == [s EXCEPT !.call = [fn |-> "load_transactions_file", file |-> file_obj],
                      !.result = MsgTransactionsLoaded,
                      !.undo_stack = << >>, !.redo_stack = << >>]
  IN IF file_obj = NoFile
     THEN [s0 EXCEPT !.df_transactions = ReadCsv(s.transaction_csv)]
     ELSE [s0 EXCEPT !.transaction_csv = file_obj[1],
                     !.df_transactions = ReadCsv(file_obj[1])]

\* the data directory always holds both CSV files, so os.path.exists(dest)
load_transactions_file(s, file_obj) ==
  LET s0 == [s EXCEPT !.call = [fn |-> "load_transactions_file", file |-> file_obj],
                      !.result = MsgTransactionsLoaded]
  IN IF file_obj = NoFile
     THEN [s0 EXCEPT !.df_transactions = ReadCsv(s.transaction_csv)]
     ELSE [s0 EXCEPT !.transaction_csv = file_obj[1],
                     !.df_transactions = ReadCsv(file_obj[1])]

load_inventory_file(s, file_obj) ==
  LET s0 == [s EXCEPT !.call = [fn |-> "load_inventory_file", file |-> file_obj],
                      !.result = MsgInventoryLoaded]
  IN IF file_obj = NoFile
     THEN [s0 EXCEPT !.df_inventory = ReadCsv(s.inventory_csv)]
     ELSE [s0 EXCEPT !.inventory_csv = file_obj[1],
                     !.df_inventory = ReadCsv(file_obj[1])]

\* ---------------------------------------------------------------- initial state
\* the worker threads that run the callbacks, and a thread that runs none
Threads == {1, 2}

IdleFrame ==
  [pc |-> "idle", fn |-> "none", item |-> "", sender_receiver |-> "", operator |-> "",
   remarks |-> << >>, image |-> NoImage, quantity |-> NoneQty, ticket |-> 0,
   idx |-> 0, new_stock |-> 0, built |-> << >>, state |-> << >>]

\* the two empty DataFrames made at start-up are objects 1 and 2
InitHeap ==
  [objs |-> << << >>, << >> >>, df_transactions |-> 1, df_inventory |-> 2,
   undo_stack |-> << >>, redo_stack |-> << >>, requests |-> 0]

\* no CSV file exists at start-up: both tables are created empty and written
InitState ==
  [df_transactions |-> << >>, df_inventory |-> << >>,
   transaction_csv |-> ToCsv(TRANSACTION_COLUMNS, << >>),
   inventory_csv |-> ToCsv(INVENTORY_COLUMNS, << >>),
   log_dir |-> {}, undo_stack |-> << >>, redo_stack |-> << >>,
   requests |-> 0, call |-> NoCall, result |-> "none", quantity_of |-> << >>]

Init ==
  /\ df_transactions = InitState.df_transactions
  /\ df_inventory = InitState.df_inventory
  /\ transaction_csv = InitState.transaction_csv
  /\ inventory_csv = InitState.inventory_csv
  /\ log_dir = InitState.log_dir
  /\ undo_stack = InitState.undo_stack
  /\ redo_stack = InitState.redo_stack
  /\ requests = InitState.requests
  /\ call = InitState.call
  /\ result = InitState.result
  /\ quantity_of = InitState.quantity_of
  /\ other = InitState
  /\ imports = 0
  /\ threads = [t \in Threads |-> IdleFrame]
  /\ heap = InitHeap

\* ---------------------------------------------------------------- button clicks
InboundUpTo(max) ==
  /\ requests < max
  /\ \E item \in Items, s \in Senders, o \in Operators, r \in RemarkTexts,
        quantity \in QtyInputs, image \in Images :
          SetState(add_inbound(State, item, s, o, r, quantity, image))
  /\ UNCHANGED aux

OutboundUpTo(max) ==
  /\ requests < max
  /\ \E item \in Items, s \in Senders, o \in Operators, r \in RemarkTexts,
        quantity \in QtyInputs, image \in Images :
          SetState(add_outbound(State, item, s, o, r, quantity, image))
  /\ UNCHANGED aux

Inbound == InboundUpTo(MaxRequests)

Outbound == OutboundUpTo(MaxRequests)

Undo == SetState(undo_action(State)) /\ UNCHANGED aux

Redo == SetState(redo_action(State)) /\ UNCHANGED aux

Next == Inbound \/ Outbound \/ Undo \/ Redo

Spec == Init /\ [][Next]_vars

\* ---------------------------------------------------------------- two executions side by side
run1 == <<df_transactions, df_inventory, transaction_csv, inventory_csv, log_dir,
          undo_stack, redo_stack, requests, call, result, quantity_of>>

PairInbound == InboundUpTo(MaxPairRequests)

PairOutbound == OutboundUpTo(MaxPairRequests)

OtherInbound ==
  /\ other.requests < MaxPairRequests
  /\ \E item \in Items, s \in Senders, o \in Operators, r \in RemarkTexts,
        quantity \in QtyInputs, image \in Images :
          other' = add_inbound(other, item, s, o, r, quantity, image)
  /\ UNCHANGED <<run1, imports, threads, heap>>

OtherOutbound ==
  /\ other.requests < MaxPairRequests
  /\ \E item \in Items, s \in Senders, o \in Operators, r \in RemarkTexts,
        quantity \in QtyInputs, image \in Images :
          other' = add_outbound(other, item, s, o, r, quantity, image)
  /\ UNCHANGED <<run1, imports, threads, heap>>

OtherUndo == other' = undo_action(other) /\ UNCHANGED <<run1, imports, threads, heap>>

OtherRedo == other' = redo_action(other) /\ UNCHANGED <<run1, imports, threads, heap>>

PairNext ==
  \/ PairInbound \/ PairOutbound \/ Undo \/ Redo
  \/ OtherInbound \/ OtherOutbound \/ OtherUndo \/ OtherRedo

SpecPair == Init /\ [][PairNext]_vars

\* ---------------------------------------------------------------- with CSV import
\* uploaded files that match the schema of the table they replace
JournalFiles ==
  {ToCsv(TRANSACTION_COLUMNS, << >>),
   ToCsv(TRANSACTION_COLUMNS, <<Record(0, INBOUND, "widget", "acme", "li", <<"note">>)>>)}

InventoryFiles ==
  {ToCsv(INVENTORY_COLUMNS, <<[time |-> 0, item |-> "widget", qty |-> 2]>>),
   ToCsv(INVENTORY_COLUMNS, <<[time |-> 0, item |-> "gadget", qty |-> 1],
                              [time |-> 0, item |-> "widget", qty |-> 1]>>)}

ImportInbound == InboundUpTo(MaxImportRequests)

ImportOutbound == OutboundUpTo(MaxImportRequests)

LoadTransactions ==
  /\ imports < MaxImports
  /\ imports' = imports + 1
  /\ \E file_obj \in {NoFile} \cup {<<f>> : f \in JournalFiles} :
       SetState(load_transactions_file(State, file_obj))
  /\ UNCHANGED <<other, threads, heap>>

LoadInventory ==
  /\ imports < MaxImports
  /\ imports' = imports + 1
  /\ \E file_obj \in {NoFile} \cup {<<f>> : f \in InventoryFiles} :
       SetState(load_inventory_file(State, file_obj))
  /\ UNCHANGED <<other, threads, heap>>

ImportNext ==
  \/ ImportInbound \/ ImportOutbound \/ Undo \/ Redo
  \/ LoadTransactions \/ LoadInventory

SpecImport == Init /\ [][ImportNext]_vars

\* ---------------------------------------------------------------- statement by statement
\* The same callbacks, one statement at a time. threads[t] is the frame of the
\* callback worker t runs: pc names the statement it executes next, the other
\* fields are its arguments and locals. Nothing in the callbacks takes a lock.
MaxStepRequests == 2
MaxConcRequests == 2

Quiet == \A t \in Threads : threads[t].pc = "idle"

IsRequest(f) == f.fn \in {"add_inbound", "add_outbound"}

TypeOf(f) == IF f.fn = "add_inbound" THEN INBOUND ELSE OUTBOUND

\* the globals as the callback of frame f sees the clock: it was the f.ticket-th request
At(f) == [State EXCEPT !.requests = f.ticket]

\* worker t executes one statement: the globals become n, its frame becomes f
Step(t, n, f) ==
  /\ SetState(n)
  /\ threads' = [threads EXCEPT ![t] = f]
  /\ UNCHANGED <<other, imports, heap>>

\* worker t returns msg
Finish(t, n, msg) == Step(t, [n EXCEPT !.result = msg], IdleFrame)

\* a click on btn_inbound / btn_outbound: worker t enters the callback
StartRequest(t, fn, max) ==
  /\ threads[t].pc = "idle"
  /\ requests < max
  /\ \E item \in Items, sender_receiver \in Senders, operator \in Operators,
        remarks \in RemarkTexts, quantity \in QtyInputs, image \in Images :
       Step(t, [State EXCEPT !.requests = requests + 1,
                             !.call = [fn |-> fn, item |-> item, quantity |-> quantity]],
            [IdleFrame EXCEPT !.pc = "log_files", !.fn = fn, !.item = item,
                              !.sender_receiver = sender_receiver, !.operator = operator,
                              !.remarks = remarks, !.image = image, !.quantity = quantity,
                              !.ticket = requests])

\* a click on btn_undo / btn_redo
StartUndo(t) ==
  /\ threads[t].pc = "idle"
  /\ Step(t, [State EXCEPT !.call = [fn |-> "undo_action"]],
          [IdleFrame EXCEPT !.pc = "check_undo", !.fn = "undo_action"])

StartRedo(t) ==
  /\ threads[t].pc = "idle"
  /\ Step(t, [State EXCEPT !.call = [fn |-> "redo_action"]],
          [IdleFrame EXCEPT !.pc = "check_redo", !.fn = "redo_action"])

\* log_files()
LogFiles(t) ==
  LET f == threads[t]
  IN /\ f.pc = "log_files"
     /\ Step(t, [State EXCEPT !.log_dir = log_files(At(f)).log_dir],
             [f EXCEPT !.pc = "append_undo"])

\* undo_stack.append((df_transactions.copy(), df_inventory.copy()))
AppendUndo(t) ==
  LET f == threads[t]
  IN /\ f.pc = "append_undo"
     /\ Step(t, [State EXCEPT !.undo_stack = Append(undo_stack, Snapshot(State))],
             [f EXCEPT !.pc = IF IsRequest(f) THEN "clear_redo" ELSE "pop_redo"])

\* redo_stack.clear()
ClearRedo(t) ==
  LET f == threads[t]
  IN /\ f.pc = "clear_redo"
     /\ Step(t, [State EXCEPT !.redo_stack = << >>], [f EXCEPT !.pc = "update_inventory"])

\* quantity = int(quantity), then update_inventory up to its decision:
\* the row is looked up and the new stock computed from the table as it is now
LookUp(t) ==
  LET f == threads[t]
      inv == df_inventory
  IN /\ f.pc = "update_inventory"
     /\ IF ~Coercible(f.quantity)
        THEN Finish(t, State, RaisedTypeError)
        ELSE IF InInventory(inv, f.item)
        THEN LET idx == IndexOf(inv, f.item)
                 new_stock == new_stock_of(inv[idx].qty, TypeOf(f), IntOf(f.quantity))
             IN IF TypeOf(f) # INBOUND /\ new_stock < 0
                THEN Finish(t, State, MsgNegative)
                ELSE Step(t, State, [f EXCEPT !.pc = "loc_qty", !.idx = idx,
                                              !.new_stock = new_stock])
        ELSE IF TypeOf(f) = INBOUND
             THEN Step(t, State, [f EXCEPT !.pc = "concat_inventory"])
             ELSE Finish(t, State, MsgNotInStock)

\* df_inventory.loc[idx, "在库数量"] = new_stock
LocQty(t) ==
  LET f == threads[t]
  IN /\ f.pc = "loc_qty"
     /\ Step(t, [State EXCEPT !.df_inventory[f.idx].qty = f.new_stock],
             [f EXCEPT !.pc = "loc_time"])

\* df_inventory.loc[idx, "最后改变时间"] = now
LocTime(t) ==
  LET f == threads[t]
  IN /\ f.pc = "loc_time"
     /\ Step(t, [State EXCEPT !.df_inventory[f.idx].time = Now(At(f), 3)],
             [f EXCEPT !.pc = "save_inventory"])

\* pd.concat([df_inventory, pd.DataFrame([new_row])], ignore_index=True)
ConcatInventory(t) ==
  LET f == threads[t]
  IN /\ f.pc = "concat_inventory"
     /\ Step(t, State,
             [f EXCEPT !.pc = "bind_inventory",
                       !.built = Append(df_inventory,
                                        [time |-> Now(At(f), 3), item |-> f.item,
                                         qty |-> IntOf(f.quantity)])])

\* df_inventory = <the concatenated table>
BindInventory(t) ==
  LET f == threads[t]
  IN /\ f.pc = "bind_inventory"
     /\ Step(t, [State EXCEPT !.df_inventory = f.built],
             [f EXCEPT !.pc = "save_inventory", !.built = << >>])

\* save_inventory(): the last statement of update_inventory, of undo_action and of redo_action
SaveInventory(t) ==
  LET f == threads[t]
  IN /\ f.pc = "save_inventory"
     /\ IF IsRequest(f)
        THEN Step(t, save_inventory(State), [f EXCEPT !.pc = "concat_transactions"])
        ELSE Finish(t, save_inventory(State),
                    IF f.fn = "undo_action" THEN MsgUndoOk ELSE MsgRedoOk)

\* pd.concat([df_transactions, pd.DataFrame([record])], ignore_index=True)
ConcatTransactions(t) ==
  LET f == threads[t]
      record == Record(Now(At(f), 2), TypeOf(f), f.item, f.sender_receiver, f.operator,
                       WithImage(f.remarks, process_image(f.image)))
  IN /\ f.pc = "concat_transactions"
     /\ Step(t, State, [f EXCEPT !.pc = "bind_transactions",
                                 !.built = Append(df_transactions, record)])

\* df_transactions = <the concatenated table>
BindTransactions(t) ==
  LET f == threads[t]
  IN /\ f.pc = "bind_transactions"
     /\ Step(t, [State EXCEPT !.df_transactions = f.built,
                              !.quantity_of = (Now(At(f), 2) :> IntOf(f.quantity)) @@ quantity_of],
             [f EXCEPT !.pc = "save_transactions", !.built = << >>])

\* save_transactions(): the last statement of a request, the last but one of undo and redo
SaveTransactions(t) ==
  LET f == threads[t]
  IN /\ f.pc = "save_transactions"
     /\ IF IsRequest(f)
        THEN Finish(t, save_transactions(State),
                    IF f.fn = "add_inbound" THEN MsgInboundOk ELSE MsgOutboundOk)
        ELSE Step(t, save_transactions(State), [f EXCEPT !.pc = "save_inventory"])

\* if not undo_stack: return
CheckUndo(t) ==
  LET f == threads[t]
  IN /\ f.pc = "check_undo"
     /\ IF undo_stack = << >>
        THEN Finish(t, State, MsgNoUndo)
        ELSE Step(t, State, [f EXCEPT !.pc = "append_redo"])

\* redo_stack.append((df_transactions.copy(), df_inventory.copy()))
AppendRedo(t) ==
  LET f == threads[t]
  IN /\ f.pc = "append_redo"
     /\ Step(t, [State EXCEPT !.redo_stack = Append(redo_stack, Snapshot(State))],
             [f EXCEPT !.pc = "pop_undo"])

\* state = undo_stack.pop()
PopUndo(t) ==
  LET f == threads[t]
  IN /\ f.pc = "pop_undo"
     /\ undo_stack # << >>
     /\ Step(t, [State EXCEPT !.undo_stack = SubSeq(undo_stack, 1, Len(undo_stack) - 1)],
             [f EXCEPT !.pc = "restore", !.state = undo_stack[Len(undo_stack)]])

\* if not redo_stack: return
CheckRedo(t) ==
  LET f == threads[t]
  IN /\ f.pc = "check_redo"
     /\ IF redo_stack = << >>
        THEN Finish(t, State, MsgNoRedo)
        ELSE Step(t, State, [f EXCEPT !.pc = "append_undo"])

\* state = redo_stack.pop()
PopRedo(t) ==
  LET f == threads[t]
  IN /\ f.pc = "pop_redo"
     /\ redo_stack # << >>
     /\ Step(t, [State EXCEPT !.redo_stack = SubSeq(redo_stack, 1, Len(redo_stack) - 1)],
             [f EXCEPT !.pc = "restore", !.state = redo_stack[Len(redo_stack)]])

\* df_transactions, df_inventory = state
Restore(t) ==
  LET f == threads[t]
  IN /\ f.pc = "restore"
     /\ Step(t, [State EXCEPT !.df_transactions = f.state[1], !.df_inventory = f.state[2]],
             [f EXCEPT !.pc = "save_transactions", !.state = << >>])

\* one callback at a time, every statement a step of its own
StepInbound == Quiet /\ StartRequest(1, "add_inbound", MaxStepRequests)
StepOutbound == Quiet /\ StartRequest(1, "add_outbound", MaxStepRequests)
StepUndo == Quiet /\ StartUndo(1)
StepRedo == Quiet /\ StartRedo(1)

StepsNext ==
  \/ StepInbound
  \/ StepOutbound
  \/ StepUndo
  \/ StepRedo
  \/ \E t \in Threads :
       \/ LogFiles(t)
       \/ AppendUndo(t)
       \/ ClearRedo(t)
       \/ LookUp(t)
       \/ LocQty(t)
       \/ LocTime(t)
       \/ ConcatInventory(t)
       \/ BindInventory(t)
       \/ SaveInventory(t)
       \/ ConcatTransactions(t)
       \/ BindTransactions(t)
       \/ SaveTransactions(t)
       \/ CheckUndo(t)
       \/ AppendRedo(t)
       \/ PopUndo(t)
       \/ CheckRedo(t)
       \/ PopRedo(t)
       \/ Restore(t)

SpecSteps == Init /\ [][StepsNext]_vars

\* btn_inbound and btn_outbound are two listeners: a click on one is served by
\* worker 1, a click on the other by worker 2, and the two workers run side by side
ConcInbound == StartRequest(1, "add_inbound", MaxConcRequests)
ConcOutbound == StartRequest(2, "add_outbound", MaxConcRequests)

ConcNext ==
  \/ ConcInbound
  \/ ConcOutbound
  \/ \E t \in Threads :
       \/ LogFiles(t)
       \/ AppendUndo(t)
       \/ ClearRedo(t)
       \/ LookUp(t)
       \/ LocQty(t)
       \/ LocTime(t)
       \/ ConcatInventory(t)
       \/ BindInventory(t)
       \/ SaveInventory(t)
       \/ ConcatTransactions(t)
       \/ BindTransactions(t)
       \/ SaveTransactions(t)

SpecConc == Init /\ [][ConcNext]_vars

\* ---------------------------------------------------------------- table objects
\* Who refers to which DataFrame object. heap.objs[id] is the content of object
\* id; the globals and the snapshots on the stacks hold ids. df.copy() and
\* pd.concat make a new object, df.loc[...] = v writes into an existing one, an
\* assignment to a global rebinds it. The CSV files hold no reference.
MaxObjects == 12

\* a new DataFrame object with the given content; its id is the next free one
Alloc(h, table) == [h EXCEPT !.objs = Append(h.objs, table)]

NewId(h) == Len(h.objs) + 1

\* a capture that stacks the live objects themselves
heap_snapshot_shared(h) ==
  [h |-> h, state |-> <<h.df_transactions, h.df_inventory>>]

\* (df_transactions.copy(), df_inventory.copy()): two new objects
heap_snapshot(h) ==
  LET h1 == Alloc(h, h.objs[h.df_transactions])
      h2 == Alloc(h1, h.objs[h.df_inventory])
  IN [h |-> h2, state |-> <<NewId(h), NewId(h1)>>]

\* update_inventory on objects: the row is written in place, a new row makes a new table
heap_update_inventory(h, item, transaction_type, quantity) ==
  LET now == Now(h, 3)
      inv == h.objs[h.df_inventory]
  IN IF InInventory(inv, item)
     THEN LET idx == IndexOf(inv, item)
              new_stock == new_stock_of(inv[idx].qty, transaction_type, quantity)
          IN IF transaction_type # INBOUND /\ new_stock < 0
             THEN [success |-> FALSE, h |-> h]
             ELSE [success |-> TRUE,
                   h |-> [h EXCEPT !.objs[h.df_inventory][idx].qty = new_stock,
                                   !.objs[h.df_inventory][idx].time = now]]
     ELSE IF transaction_type = INBOUND
          THEN [success |-> TRUE,
                h |-> [Alloc(h, Append(inv, [time |-> now, item |-> item, qty |-> quantity]))
                         EXCEPT !.df_inventory = NewId(h)]]
          ELSE [success |-> FALSE, h |-> h]

\* add_inbound / add_outbound on objects
heap_add(h, transaction_type, item, sender_receiver, operator, remarks, quantity, image) ==
  LET snap == heap_snapshot(h)
      h1 == [snap.h EXCEPT !.undo_stack = Append(h.undo_stack, snap.state),
                           !.redo_stack = << >>]
      done == [h1 EXCEPT !.requests = h.requests + 1]
  IN IF ~Coercible(quantity)
     THEN done
     ELSE LET r == heap_update_inventory(h1, item, transaction_type, IntOf(quantity))
              record == Record(Now(h, 2), transaction_type, item, sender_receiver, operator,
                               WithImage(remarks, process_image(image)))
          IN IF ~r.success
             THEN done
             ELSE [Alloc(r.h, Append(r.h.objs[r.h.df_transactions], record))
                     EXCEPT !.df_transactions = NewId(r.h),
                            !.requests = h.requests + 1]

\* undo_action on objects
heap_undo(h) ==
  IF h.undo_stack = << >>
  THEN h
  ELSE LET snap == heap_snapshot(h)
           state == h.undo_stack[Len(h.undo_stack)]
       IN [snap.h EXCEPT !.redo_stack = Append(h.redo_stack, snap.state),
                         !.undo_stack = SubSeq(h.undo_stack, 1, Len(h.undo_stack) - 1),
                         !.df_transactions = state[1],
                         !.df_inventory = state[2]]

\* redo_action on objects
heap_redo(h) ==
  IF h.redo_stack = << >>
  THEN h
  ELSE LET snap == heap_snapshot(h)
           state == h.redo_stack[Len(h.redo_stack)]
       IN [snap.h EXCEPT !.undo_stack = Append(h.undo_stack, snap.state),
                         !.redo_stack = SubSeq(h.redo_stack, 1, Len(h.redo_stack) - 1),
                         !.df_transactions = state[1],
                         !.df_inventory = state[2]]

\* the callbacks run on the tables and on the objects alike
HeapInbound ==
  /\ Len(heap.objs) + 4 <= MaxObjects
  /\ \E item \in Items, sender_receiver \in Senders, operator \in Operators,
        remarks \in RemarkTexts, quantity \in QtyInputs, image \in Images :
       /\ SetState(add_inbound(State, item, sender_receiver, operator, remarks,
                               quantity, image))
       /\ heap' = heap_add(heap, INBOUND, item, sender_receiver, operator, remarks,
                           quantity, image)
  /\ UNCHANGED <<other, imports, threads>>

HeapOutbound ==
  /\ Len(heap.objs) + 4 <= MaxObjects
  /\ \E item \in Items, sender_receiver \in Senders, operator \in Operators,
        remarks \in RemarkTexts, quantity \in QtyInputs, image \in Images :
       /\ SetState(add_outbound(State, item, sender_receiver, operator, remarks,
                                quantity, image))
       /\ heap' = heap_add(heap, OUTBOUND, item, sender_receiver, operator, remarks,
                           quantity, image)
  /\ UNCHANGED <<other, imports, threads>>

HeapUndo ==
  /\ Len(heap.objs) + 2 <= MaxObjects
  /\ SetState(undo_action(State))
  /\ heap' = heap_undo(heap)
  /\ UNCHANGED <<other, imports, threads>>

HeapRedo ==
  /\ Len(heap.objs) + 2 <= MaxObjects
  /\ SetState(redo_action(State))
  /\ heap' = heap_redo(heap)
  /\ UNCHANGED <<other, imports, threads>>

HeapNext == HeapInbound \/ HeapOutbound \/ HeapUndo \/ HeapRedo

SpecHeap == Init /\ [][HeapNext]_vars

\* ---------------------------------------------------------------- properties
\* quantity booked for an item by the rows of a journal: inbound rows add the
\* quantity their request carried, outbound rows subtract it
RECURSIVE JournalSum(_, _, _)
JournalSum(journal, qty, item) ==
  IF journal = << >> THEN 0
  ELSE LET e == Head(journal)
           d == IF e.item # item THEN 0
                ELSE IF e.type = INBOUND THEN qty[e.date] ELSE 0 - qty[e.date]
       IN d + JournalSum(Tail(journal), qty, item)

StockQty(inv, item) == inv[IndexOf(inv, item)].qty

\* what the claims call the tables and the stacks
Core(s) == <<s.df_transactions, s.df_inventory, s.transaction_csv, s.inventory_csv,
             s.undo_stack, s.redo_stack>>

\* not a positive integer: None, zero or negative
InvalidQuantity(quantity) == ~Coercible(quantity) \/ IntOf(quantity) <= 0

\* every committed request carried a positive quantity
PositiveQuantities(qty) == \A d \in DOMAIN qty : qty[d] > 0

\* the step is a call of add_inbound / add_outbound
RequestStep ==
  /\ requests' = requests + 1
  /\ call'.fn \in {"add_inbound", "add_outbound"}

\* C1: in every reachable state the stock quantity of every item equals the
\* sum of the quantities of its inbound journal rows minus the sum of the
\* quantities of its outbound journal rows (an item without stock row has no
\* journal row).
C1_StockEqualsJournalSum ==
  \A item \in Items :
    IF InInventory(df_inventory, item)
    THEN StockQty(df_inventory, item) = JournalSum(df_transactions, quantity_of, item)
    ELSE \A i \in 1..Len(df_transactions) : df_transactions[i].item # item

C1_Witness ==
  /\ result = MsgRedoOk
  /\ \E i, j \in 1..Len(df_transactions) :
       /\ df_transactions[i].type = INBOUND
       /\ df_transactions[j].type = OUTBOUND
       /\ df_transactions[i].item = df_transactions[j].item
       /\ StockQty(df_inventory, df_transactions[i].item) > 0

\* C2: in every reachable state every row of the stock table has a quantity
\* of at least 0.
C2_StockNonNegative ==
  \A i \in 1..Len(df_inventory) : df_inventory[i].qty >= 0

\* C3: an outbound request for more than the item's stock, or for an item
\* without stock row, is rejected and leaves the live journal, the live stock
\* table and both CSV files as they were.
C3_RejectedOutboundChangesNoTable ==
  [][(/\ RequestStep
      /\ call'.fn = "add_outbound"
      /\ Coercible(call'.quantity)
      /\ \/ ~InInventory(df_inventory, call'.item)
         \/ IntOf(call'.quantity) > StockQty(df_inventory, call'.item))
     => /\ result' \in {MsgNegative, MsgNotInStock}
        /\ UNCHANGED <<df_transactions, df_inventory, transaction_csv, inventory_csv>>]_vars

C3_Witness ==
  /\ call.fn = "add_outbound"
  /\ result = MsgNegative
  /\ Len(df_transactions) >= 2
  /\ StockQty(df_inventory, call.item) > 0

\* C4: a request the ledger rejects leaves UndoStack equal to what it was
\* before the request.
C4_RejectedRequestKeepsUndoStack ==
  [][(/\ RequestStep
      /\ ~InvalidQuantity(call'.quantity)
      /\ result' \in {MsgNegative, MsgNotInStock})
     => undo_stack' = undo_stack]_vars

\* C5: after N >= 1 committed transactions (positive quantities), the last
\* request being committed or rejected by the ledger, an undo leaves the
\* first N-1 rows as the journal, the stock those rows add up to, and one
\* more snapshot on RedoStack.
C5_UndoRevertsLastCommit ==
  [][(/\ call'.fn = "undo_action"
      /\ undo_stack # << >>
      /\ Len(df_transactions) >= 1
      /\ PositiveQuantities(quantity_of)
      /\ call.fn \in {"add_inbound", "add_outbound"}
      /\ ~InvalidQuantity(call.quantity)
      /\ result \in {MsgInboundOk, MsgOutboundOk, MsgNegative, MsgNotInStock})
     => /\ df_transactions' = SubSeq(df_transactions, 1, Len(df_transactions) - 1)
        /\ \A item \in Items :
             InInventory(df_inventory', item) =>
               StockQty(df_inventory', item) = JournalSum(df_transactions', quantity_of, item)
        /\ Len(redo_stack') = Len(redo_stack) + 1]_vars

\* C6: after an undo that found a snapshot, redo gives back the journal, the
\* stock table, both CSV files, UndoStack and RedoStack of before the undo.
C6_RedoAfterUndoIsIdentity ==
  [][(/\ call'.fn = "undo_action"
      /\ undo_stack # << >>)
     => Core(redo_action(State')) = Core(State)]_vars

C6_Witness ==
  /\ call.fn = "redo_action"
  /\ result = MsgRedoOk
  /\ Len(df_transactions) >= 2
  /\ undo_stack # << >>

\* C7: a committed transaction leaves RedoStack empty, only a successful undo
\* makes an empty RedoStack non-empty, and a redo on an empty RedoStack
\* reports no history and changes neither the tables nor the stacks; so a
\* redo after a commit with no undo in between changes nothing.
C7_CommitClearsRedo ==
  [][/\ (RequestStep /\ result' \in {MsgInboundOk, MsgOutboundOk}) => redo_stack' = << >>
     /\ (redo_stack = << >> /\ redo_stack' # << >>)
          => (call'.fn = "undo_action" /\ result' = MsgUndoOk)
     /\ (redo_stack = << >> /\ call'.fn = "redo_action")
          => (result' = MsgNoRedo /\ Core(State') = Core(State))]_vars

\* an undo, then a commit, then a failed redo
C7_Witness ==
  /\ call.fn = "redo_action"
  /\ result = MsgNoRedo
  /\ Len(undo_stack) < requests
  /\ df_transactions # << >>
  /\ df_transactions[Len(df_transactions)].date > (requests - 1) * ReadsPerRequest

\* C8: undo on an empty UndoStack and redo on an empty RedoStack report no
\* history and leave journal, stock table, CSV files and both stacks unchanged.
C8_NoHistoryChangesNothing ==
  [][/\ (call'.fn = "undo_action" /\ undo_stack = << >>)
          => (result' = MsgNoUndo /\ Core(State') = Core(State))
     /\ (call'.fn = "redo_action" /\ redo_stack = << >>)
          => (result' = MsgNoRedo /\ Core(State') = Core(State))]_vars

C8_Witness ==
  /\ call.fn = "undo_action"
  /\ result = MsgNoUndo
  /\ redo_stack # << >>

\* C9: a request whose quantity is None, zero or negative writes no log copy,
\* pushes no snapshot, keeps RedoStack and changes no table or CSV file.
C9_InvalidQuantityHasNoEffect ==
  [][(RequestStep /\ InvalidQuantity(call'.quantity))
     => (log_dir' = log_dir /\ Core(State') = Core(State))]_vars

\* C10: two executions (of requests with positive quantities, undo and redo)
\* whose journals have the same rows (dates ignored) have the same stock
\* quantity for every item.
SameJournal(j1, j2) ==
  /\ Len(j1) = Len(j2)
  /\ \A i \in 1..Len(j1) :
       [j1[i] EXCEPT !.date = 0] = [j2[i] EXCEPT !.date = 0]

SameQuantities(inv1, inv2) ==
  \A item \in Items :
    /\ InInventory(inv1, item) = InInventory(inv2, item)
    /\ InInventory(inv1, item) => StockQty(inv1, item) = StockQty(inv2, item)

C10_JournalDeterminesStock ==
  (/\ PositiveQuantities(quantity_of)
   /\ PositiveQuantities(other.quantity_of)
   /\ SameJournal(df_transactions, other.df_transactions))
    => SameQuantities(df_inventory, other.df_inventory)

\* C11: after every completed callback (request committed or rejected, undo,
\* redo, with or without history, import) the journal file holds the live
\* journal and the stock file holds the live stock table.
C11_DurableEqualsLive ==
  /\ transaction_csv = ToCsv(TRANSACTION_COLUMNS, df_transactions)
  /\ inventory_csv = ToCsv(INVENTORY_COLUMNS, df_inventory)

C11_Witness ==
  /\ call.fn = "redo_action"
  /\ result = MsgRedoOk
  /\ \E i \in 1..Len(df_inventory) : df_inventory[i].time = 0
  /\ df_transactions # << >>

\* C12: every request stores, under the stamp of its start, a copy of both
\* CSV files as they were before the request; undo and redo store no copy.
C12_ArchiveBeforeMutation ==
  [][/\ RequestStep =>
          \E c \in log_dir' :
            /\ c.stamp = Stamp(Now(State, 1))
            /\ c.transactions = transaction_csv
            /\ c.inventory = inventory_csv
     /\ call'.fn \in {"undo_action", "redo_action"} => log_dir' = log_dir]_vars

\* a second request within the second of the first one
C12_Witness ==
  /\ call.fn \in {"add_inbound", "add_outbound"}
  /\ requests = 2
  /\ Cardinality(log_dir) = 1
  /\ \E c \in log_dir : c.transactions.rows # << >> /\ c.inventory.rows # << >>

\* the rows of a stock table for an item, read without the program's helpers
HasRow(inv, item) == item \in {inv[i].item : i \in 1..Len(inv)}
FirstRow(inv, item) ==
  inv[CHOOSE i \in 1..Len(inv) :
        inv[i].item = item /\ \A j \in 1..Len(inv) : inv[j].item = item => i <= j]

\* C13: an outbound request returns the unknown-item error exactly when the
\* item has no stock row, and the negative-stock error exactly when it has a
\* row with less than the requested quantity; a row is never removed, so an
\* item driven to 0 is answered with the negative-stock error.
C13_RejectionKinds ==
  [][(RequestStep /\ call'.fn = "add_outbound" /\ Coercible(call'.quantity))
     => /\ result' = MsgNotInStock <=> ~HasRow(df_inventory, call'.item)
        /\ result' = MsgNegative <=>
             (/\ HasRow(df_inventory, call'.item)
              /\ FirstRow(df_inventory, call'.item).qty < IntOf(call'.quantity))
        /\ \A item \in Items : HasRow(df_inventory, item) => HasRow(df_inventory', item)]_vars

C13_Witness ==
  /\ call.fn = "add_outbound"
  /\ result = MsgNegative
  /\ FirstRow(df_inventory, call.item).qty = 0
  /\ \E i \in 1..Len(df_transactions) :
       df_transactions[i].type = OUTBOUND /\ df_transactions[i].item = call.item

\* C14: a committed transaction on item i with quantity q appends the row
\* (i, q) when i has no row (inbound only), else sets the quantity of i's
\* row to old + q (inbound) or old - q (outbound, old >= q); every other row
\* keeps its quantity and change time and no other row is added or removed.
C14_CommitFollowsReferenceRule ==
  [][(RequestStep /\ result' \in {MsgInboundOk, MsgOutboundOk})
     => LET item == call'.item
            q == IntOf(call'.quantity)
            inbound == call'.fn = "add_inbound"
            n == Len(df_inventory)
        IN IF ~HasRow(df_inventory, item)
           THEN /\ inbound
                /\ Len(df_inventory') = n + 1
                /\ df_inventory'[n + 1].item = item
                /\ df_inventory'[n + 1].qty = q
                /\ \A j \in 1..n : df_inventory'[j] = df_inventory[j]
           ELSE /\ Len(df_inventory') = n
                /\ \E i \in 1..n :
                     /\ df_inventory[i] = FirstRow(df_inventory, item)
                     /\ df_inventory'[i].item = item
                     /\ df_inventory'[i].qty =
                          (IF inbound THEN df_inventory[i].qty + q ELSE df_inventory[i].qty - q)
                     /\ inbound \/ df_inventory[i].qty >= q
                     /\ \A j \in 1..n : j # i => df_inventory'[j] = df_inventory[j]]_vars

C14_Witness ==
  /\ call.fn = "add_outbound"
  /\ result = MsgOutboundOk
  /\ Len(df_inventory) = 2
  /\ FirstRow(df_inventory, call.item).qty > 0

\* C15: a committed transaction appends exactly one row, carrying the
\* direction and the item of the request, to the end of the journal and
\* leaves the rows before it as they were; a request that does not commit
\* leaves the journal as it was.
C15_JournalAppendOnly ==
  [][RequestStep
     => IF result' \in {MsgInboundOk, MsgOutboundOk}
        THEN /\ Len(df_transactions') = Len(df_transactions) + 1
             /\ SubSeq(df_transactions', 1, Len(df_transactions)) = df_transactions
             /\ df_transactions'[Len(df_transactions')].item = call'.item
             /\ df_transactions'[Len(df_transactions')].type =
                  (IF call'.fn = "add_inbound" THEN INBOUND ELSE OUTBOUND)
        ELSE df_transactions' = df_transactions]_vars

C15_Witness ==
  /\ call.fn = "add_inbound"
  /\ result = MsgInboundOk
  /\ Len(df_transactions) = 3
  /\ df_transactions[2].type = OUTBOUND

\* C16: a request the ledger rejects leaves RedoStack as it was.
C16_RejectedRequestKeepsRedoStack ==
  [][(/\ RequestStep
      /\ ~InvalidQuantity(call'.quantity)
      /\ result' \in {MsgNegative, MsgNotInStock})
     => redo_stack' = redo_stack]_vars

\* C19: an import with a file replaces the live table and the CSV file of
\* that table by the file's content and leaves the other table, its CSV
\* file, both stacks and the log folder as they were; an undo right after
\* an import restores the snapshot on top of UndoStack.
C19_ImportReplacesOneTable ==
  [][/\ (call'.fn = "load_transactions_file" /\ imports' = imports + 1
          /\ call'.file # NoFile)
          => /\ transaction_csv' = call'.file[1]
             /\ df_transactions' = call'.file[1].rows
             /\ UNCHANGED <<df_inventory, inventory_csv, undo_stack, redo_stack, log_dir>>
     /\ (call'.fn = "load_inventory_file" /\ imports' = imports + 1
          /\ call'.file # NoFile)
          => /\ inventory_csv' = call'.file[1]
             /\ df_inventory' = call'.file[1].rows
             /\ UNCHANGED <<df_transactions, transaction_csv, undo_stack, redo_stack,
                            log_dir>>
     /\ (call.fn \in {"load_transactions_file", "load_inventory_file"}
          /\ call'.fn = "undo_action" /\ undo_stack # << >>)
          => <<df_transactions', df_inventory'>> = undo_stack[Len(undo_stack)]]_vars

\* an undo after the import of a journal file that differs from the journal
C19_Witness ==
  /\ call.fn = "undo_action"
  /\ result = MsgUndoOk
  /\ imports = 1
  /\ redo_stack # << >>
  /\ redo_stack[Len(redo_stack)][1] # << >>
  /\ \A i \in 1..Len(redo_stack[Len(redo_stack)][1]) :
       redo_stack[Len(redo_stack)][1][i].date = 0
  /\ redo_stack[Len(redo_stack)][2] # << >>

\* the stock rows inv carry, item by item, the sums of the journal rows
SumHolds(journal, inv) ==
  \A item \in Items :
    IF HasRow(inv, item)
    THEN FirstRow(inv, item).qty = JournalSum(journal, quantity_of, item)
    ELSE \A i \in 1..Len(journal) : journal[i].item # item

\* every request being served carries a positive quantity
ValidFrames ==
  \A t \in Threads : IsRequest(threads[t]) => ~InvalidQuantity(threads[t].quantity)

\* C18: two requests running side by side take effect one after the other:
\* once both have returned no journal append and no stock update is lost, so
\* the stock of every item equals the sum of its journal rows.
C18_ConcurrentRequestsAtomic ==
  (Quiet /\ PositiveQuantities(quantity_of)) => SumHolds(df_transactions, df_inventory)

\* C20: at every statement of a committed request, of an undo and of a redo
\* the stock file and the journal file belong to the same logical state, so
\* the pair on disk satisfies the stock-equals-journal-sum invariant.
C20_DurablePairConsistent ==
  (ValidFrames /\ PositiveQuantities(quantity_of))
    => SumHolds(transaction_csv.rows, inventory_csv.rows)

\* every reference to a table: the two globals, then the snapshots stacked
Refs(h) ==
  {<<"live", 0, 1, h.df_transactions>>, <<"live", 0, 2, h.df_inventory>>}
    \cup {<<"undo", i, k, h.undo_stack[i][k]>> : i \in 1..Len(h.undo_stack), k \in 1..2}
    \cup {<<"redo", i, k, h.redo_stack[i][k]>> : i \in 1..Len(h.redo_stack), k \in 1..2}

\* the tables a stack of references stands for
Contents(h, stack) ==
  [i \in 1..Len(stack) |-> <<h.objs[stack[i][1]], h.objs[stack[i][2]]>>]

\* C17: no table object held in a stacked snapshot is the live journal, the
\* live stock table or a table of another stacked snapshot; hence every
\* stacked snapshot still has the content it was captured with, whatever was
\* written in place since.
C17_SnapshotsIndependent ==
  /\ \A a, b \in Refs(heap) : a[4] = b[4] => a = b
  /\ Contents(heap, heap.undo_stack) = undo_stack
  /\ Contents(heap, heap.redo_stack) = redo_stack
  /\ heap.objs[heap.df_transactions] = df_transactions
  /\ heap.objs[heap.df_inventory] = df_inventory

\* a stock row was written in place while older snapshots of it were stacked
C17_Witness ==
  /\ result \in {MsgInboundOk, MsgOutboundOk}
  /\ Len(heap.undo_stack) >= 2
  /\ LET before == heap.objs[heap.undo_stack[Len(heap.undo_stack)][2]]
         live == heap.objs[heap.df_inventory]
     IN /\ before # << >>
        /\ Len(before) = Len(live)
        /\ before # live

====
